---- MODULE Spec2Model ----
(***************************************************************************)
(* Model of server.py: the two provider clients with exponential backoff   *)
(* (fetch_alpha_vantage_data, generate_gemini_content), the single-call    *)
(* proxy routes, the Gemini route and the full-report aggregator           *)
(* (get_full_stock_report).                                                *)
(*                                                                         *)
(* One inbound request is followed from its route handler to its HTTP      *)
(* outcome.  Every outbound provider attempt is one step whose provider    *)
(* outcome (a response body, a raised exception) is an input.              *)
(*                                                                         *)
(* Python strings are sequences of one-character strings, so that          *)
(* str.lower(), the `in` substring test and re.sub are computed.           *)
(* A Python dict is a record holding its key set ("keys") and the values   *)
(* of the keys it may hold; a value is meaningful only when its key is in  *)
(* the key set.                                                            *)
(***************************************************************************)
EXTENDS Integers, Sequences, FiniteSets, TLC

VARIABLES
    ALPHA_VANTAGE_API_KEY,  \* TRUE iff the environment variable is set
    GEMINI_API_KEY,         \* TRUE iff the environment variable is set
    handler,                \* route handler serving the inbound request
    http,                   \* what the route handler answered, or how it ended
    av_pc,                  \* fetch_alpha_vantage_data: "idle", "loop", "returned"
    av_params,              \* params['function'] of the running invocation
    av_i,                   \* loop variable i of the running invocation
    av_calls,               \* requests.get calls made by the running invocation
    av_sleeps,              \* time.sleep durations of the running invocation
    av_hist,                \* provider outcomes the running invocation received
    av_result,              \* value returned by the invocation
    gem_pc,                 \* generate_gemini_content: "idle", "loop", "returned", "raised"
    gem_i,                  \* loop variable i
    gem_calls,              \* chat.send_message calls made
    gem_sleeps,             \* time.sleep durations
    gem_hist,               \* provider outcomes received
    gem_result,             \* value returned, or the exception that escaped
    agg_pc,                 \* get_full_stock_report: sub-call in progress
    report_data,            \* get_full_stock_report: the report being built
    issued,                 \* sub-calls get_full_stock_report has issued, in order
    resolved                \* sub-calls that have returned, in order, and whether with 'error'

vars == <<ALPHA_VANTAGE_API_KEY, GEMINI_API_KEY, handler, http,
          av_pc, av_params, av_i, av_calls, av_sleeps, av_hist, av_result,
          gem_pc, gem_i, gem_calls, gem_sleeps, gem_hist, gem_result,
          agg_pc, report_data, issued, resolved>>

av_vars == <<av_pc, av_params, av_i, av_calls, av_sleeps, av_hist, av_result>>
gem_vars == <<gem_pc, gem_i, gem_calls, gem_sleeps, gem_hist, gem_result>>
agg_vars == <<agg_pc, report_data, issued, resolved>>

-----------------------------------------------------------------------------
(* Bounds and program constants *)

MaxReports == 5         \* longest annualReports / annualEarnings list a body carries

max_retries == 5
initial_delay == 1
gem_max_retries == 5
gem_initial_delay == 1

-----------------------------------------------------------------------------
(* Python strings *)

UpperChars == <<"A", "B", "C", "D", "E", "F", "G", "H", "I", "J", "K", "L", "M",
                "N", "O", "P", "Q", "R", "S", "T", "U", "V", "W", "X", "Y", "Z">>
LowerChars == <<"a", "b", "c", "d", "e", "f", "g", "h", "i", "j", "k", "l", "m",
                "n", "o", "p", "q", "r", "s", "t", "u", "v", "w", "x", "y", "z">>
Digits == {"0", "1", "2", "3", "4", "5", "6", "7", "8", "9"}

Range(s) == {s[k] : k \in DOMAIN s}

LowerChar(c) ==
    IF \E k \in DOMAIN UpperChars : UpperChars[k] = c
    THEN LowerChars[CHOOSE k \in DOMAIN UpperChars : UpperChars[k] = c]
    ELSE c

UpperChar(c) ==
    IF \E k \in DOMAIN LowerChars : LowerChars[k] = c
    THEN UpperChars[CHOOSE k \in DOMAIN LowerChars : LowerChars[k] = c]
    ELSE c

\* str.lower()
Lower(s) == [k \in DOMAIN s |-> LowerChar(s[k])]

\* str.upper()
Upper(s) == [k \in DOMAIN s |-> UpperChar(s[k])]

\* sub in s
Contains(sub, s) ==
    \E k \in 0..(Len(s) - Len(sub)) : SubSeq(s, k + 1, k + Len(sub)) = sub

RATE_LIMIT == <<"r", "a", "t", "e", " ", "l", "i", "m", "i", "t">>   \* "rate limit"
QUOTA == <<"q", "u", "o", "t", "a">>                                 \* "quota"

\* 2 ** i
RECURSIVE Pow2(_)
Pow2(n) == IF n = 0 THEN 1 ELSE 2 * Pow2(n - 1)

\* mutant: lst[:n + 1]
Slice_OneMore(lst, n) == SubSeq(lst, 1, IF Len(lst) < n + 1 THEN Len(lst) ELSE n + 1)

\* lst[:n]
Slice(lst, n) == SubSeq(lst, 1, IF Len(lst) < n THEN Len(lst) ELSE n)

-----------------------------------------------------------------------------
(* Texts the providers send *)

TXT_none == <<>>
TXT_rl_lower == <<"r", "a", "t", "e", " ", "l", "i", "m", "i", "t">>                    \* "rate limit"
TXT_rl_mixed == <<"A", "P", "I", " ", "R", "a", "t", "e", " ", "L", "i", "m", "i", "t">> \* "API Rate Limit"
TXT_rl_hyphen == <<"R", "a", "t", "e", "-", "l", "i", "m", "i", "t">>                   \* "Rate-limit"
TXT_invalid == <<"I", "n", "v", "a", "l", "i", "d", " ", "c", "a", "l", "l">>           \* "Invalid call"
TXT_info_rl == <<"R", "A", "T", "E", " ", "L", "I", "M", "I", "T", " ", "2", "5">>      \* "RATE LIMIT 25"
TXT_info_demo == <<"d", "e", "m", "o", " ", "k", "e", "y">>                             \* "demo key"
TXT_note == <<"T", "h", "a", "n", "k", " ", "y", "o", "u">>                             \* "Thank you"
TXT_quota == <<"Q", "u", "o", "t", "a", " ", "h", "i", "t">>                            \* "Quota hit"
TXT_429 == <<"4", "2", "9", " ", "R", "a", "t", "e", " ", "L", "i", "m", "i", "t">>     \* "429 Rate Limit"
TXT_both == <<"q", "u", "o", "t", "a", " ", "r", "a", "t", "e", " ", "l", "i", "m", "i", "t">> \* "quota rate limit"
TXT_internal == <<"5", "0", "0", " ", "I", "n", "t", "e", "r", "n", "a", "l">>          \* "500 Internal"
TXT_valueerror == <<"n", "o", " ", "v", "a", "l", "i", "d", " ", "P", "a", "r", "t">>   \* "no valid Part"
TXT_json == <<"b", "a", "d", " ", "J", "S", "O", "N">>                                  \* "bad JSON"

-----------------------------------------------------------------------------
(* Alpha Vantage response bodies (the dict response.json() returns) *)

Body(keys, em, info, note, quote, ar, ae) ==
    [keys |-> keys, em |-> em, info |-> info, note |-> note,
     quote |-> quote, annualReports |-> ar, annualEarnings |-> ae]

EmptyBody == Body({}, TXT_none, TXT_none, TXT_none, {}, <<>>, <<>>)

ErrBody(em) == [EmptyBody EXCEPT !.keys = {"Error Message"}, !.em = em]
InfoBody(info) == [EmptyBody EXCEPT !.keys = {"Information"}, !.info = info]

\* bodies the provider may send whatever the function asked for
CommonBodies ==
    { ErrBody(TXT_rl_lower), ErrBody(TXT_rl_mixed), ErrBody(TXT_rl_hyphen),
      ErrBody(TXT_invalid),
      [ErrBody(TXT_invalid) EXCEPT !.keys = {"Error Message", "Information"},
                                   !.info = TXT_info_rl],
      InfoBody(TXT_info_rl), InfoBody(TXT_info_demo),
      EmptyBody }

\* a list of n annual reports; report k of it is named 10 * n + k, so that two
\* lists of different lengths share no report
Reports(n) == [k \in 1..n |-> 10 * n + k]

\* bodies that answer one function
DataBodies(fn) ==
    CASE fn = "GLOBAL_QUOTE" ->
            { [EmptyBody EXCEPT !.keys = {"Global Quote"}, !.quote = {"05. price"}],
              [EmptyBody EXCEPT !.keys = {"Global Quote"}],
              [EmptyBody EXCEPT !.keys = {"Global Quote", "Note"},
                                !.quote = {"05. price"}, !.note = TXT_note] }
      [] fn = "OVERVIEW" ->
            { [EmptyBody EXCEPT !.keys = {"Symbol"}],
              [EmptyBody EXCEPT !.keys = {"Symbol", "Note"}, !.note = TXT_note] }
      [] fn = "INCOME_STATEMENT" ->
            { [EmptyBody EXCEPT !.keys = {"annualReports"}, !.annualReports = Reports(n)]
                : n \in 0..MaxReports }
      [] fn = "EARNINGS" ->
            { [EmptyBody EXCEPT !.keys = {"annualEarnings"}, !.annualEarnings = Reports(n)]
                : n \in 0..MaxReports }
      [] OTHER ->
            { [EmptyBody EXCEPT !.keys = {"Symbol"}] }

\* what one requests.get / raise_for_status / json attempt can do
BodyOutcome(b) == [type |-> "body", body |-> b, text |-> TXT_none]
TransportOutcome == [type |-> "RequestException", body |-> EmptyBody, text |-> TXT_none]
OtherOutcome(t) == [type |-> "Exception", body |-> EmptyBody, text |-> t]

AVOutcomes(fn) ==
    {BodyOutcome(b) : b \in CommonBodies \cup DataBodies(fn)}
        \cup {TransportOutcome, OtherOutcome(TXT_json)}

-----------------------------------------------------------------------------
(* Values the clients return: {"error": ...}, {"success": ...} or the body *)

Msg(fmt, text) == [fmt |-> fmt, text |-> text]
NoMsg == Msg("", TXT_none)

NoResult == [kind |-> "none", msg |-> NoMsg, data |-> EmptyBody]
ErrorResult(fmt, text) == [kind |-> "error", msg |-> Msg(fmt, text), data |-> EmptyBody]
DataResult(b) == [kind |-> "data", msg |-> NoMsg, data |-> b]
SuccessResult == [kind |-> "success", msg |-> NoMsg, data |-> EmptyBody]
RaisedResult(exc) == [kind |-> "raised", msg |-> Msg(exc, TXT_none), data |-> EmptyBody]

\* 'error' in result
HasError(r) == r.kind = "error"

-----------------------------------------------------------------------------
(* fetch_alpha_vantage_data *)

\* mutant: a delay that grows by initial_delay per attempt
AVDelay_Linear(i) == initial_delay * (i + 1)

\* initial_delay * (2 ** i)
AVDelay(i) == initial_delay * Pow2(i)

\* mutant: the test without .lower()
MentionsRateLimit_CaseSensitive(text) == Contains(RATE_LIMIT, text)

\* "rate limit" in text.lower()
MentionsRateLimit(text) == Contains(RATE_LIMIT, Lower(text))

\* mutant: every 'Error Message' is retried, whatever its text
AVClassify_AnyErrorRetries(out) ==
    IF out.type = "RequestException" THEN [act |-> "retry", result |-> NoResult]
    ELSE IF out.type = "Exception"
    THEN [act |-> "return", result |-> ErrorResult("AV_UNEXPECTED", out.text)]
    ELSE LET data == out.body IN
        IF "Error Message" \in data.keys
        THEN [act |-> "retry", result |-> NoResult]
        ELSE IF "Information" \in data.keys /\ MentionsRateLimit(data.info)
        THEN [act |-> "return", result |-> ErrorResult("TEXT", data.info)]
        ELSE [act |-> "return", result |-> DataResult(data)]

\* mutant: the 'Information' rate limit is retried like the 'Error Message' one
AVClassify_InfoRetries(out) ==
    IF out.type = "RequestException" THEN [act |-> "retry", result |-> NoResult]
    ELSE IF out.type = "Exception"
    THEN [act |-> "return", result |-> ErrorResult("AV_UNEXPECTED", out.text)]
    ELSE LET data == out.body IN
        IF "Error Message" \in data.keys
        THEN IF MentionsRateLimit(data.em)
             THEN [act |-> "retry", result |-> NoResult]
             ELSE [act |-> "return", result |-> ErrorResult("TEXT", data.em)]
        ELSE IF "Information" \in data.keys /\ MentionsRateLimit(data.info)
        THEN [act |-> "retry", result |-> NoResult]
        ELSE [act |-> "return", result |-> DataResult(data)]

\* mutant: a transport failure is returned as the result
AVClassify_TransportReturns(out) ==
    IF out.type = "RequestException"
    THEN [act |-> "return", result |-> ErrorResult("AV_NETWORK", out.text)]
    ELSE IF out.type = "Exception"
    THEN [act |-> "return", result |-> ErrorResult("AV_UNEXPECTED", out.text)]
    ELSE LET data == out.body IN
        IF "Error Message" \in data.keys
        THEN IF MentionsRateLimit(data.em)
             THEN [act |-> "retry", result |-> NoResult]
             ELSE [act |-> "return", result |-> ErrorResult("TEXT", data.em)]
        ELSE IF "Information" \in data.keys /\ MentionsRateLimit(data.info)
        THEN [act |-> "return", result |-> ErrorResult("TEXT", data.info)]
        ELSE [act |-> "return", result |-> DataResult(data)]

\* mutant: the advisory 'Note' is returned as an error
AVClassify_NoteIsError(out) ==
    IF out.type = "RequestException" THEN [act |-> "retry", result |-> NoResult]
    ELSE IF out.type = "Exception"
    THEN [act |-> "return", result |-> ErrorResult("AV_UNEXPECTED", out.text)]
    ELSE LET data == out.body IN
        IF "Error Message" \in data.keys
        THEN IF MentionsRateLimit(data.em)
             THEN [act |-> "retry", result |-> NoResult]
             ELSE [act |-> "return", result |-> ErrorResult("TEXT", data.em)]
        ELSE IF "Information" \in data.keys /\ MentionsRateLimit(data.info)
        THEN [act |-> "return", result |-> ErrorResult("TEXT", data.info)]
        ELSE IF "Note" \in data.keys
        THEN [act |-> "return", result |-> ErrorResult("TEXT", data.note)]
        ELSE [act |-> "return", result |-> DataResult(data)]

\* mutant: every exception is retried like a transport failure
AVClassify_AnyExceptionRetries(out) ==
    IF out.type \in {"RequestException", "Exception"}
    THEN [act |-> "retry", result |-> NoResult]
    ELSE LET data == out.body IN
        IF "Error Message" \in data.keys
        THEN IF MentionsRateLimit(data.em)
             THEN [act |-> "retry", result |-> NoResult]
             ELSE [act |-> "return", result |-> ErrorResult("TEXT", data.em)]
        ELSE IF "Information" \in data.keys /\ MentionsRateLimit(data.info)
        THEN [act |-> "return", result |-> ErrorResult("TEXT", data.info)]
        ELSE [act |-> "return", result |-> DataResult(data)]

\* One pass through the loop body: either the loop goes on after a sleep
\* ("retry") or the function returns ("return").
AVClassify(out) ==
    IF out.type = "RequestException" THEN [act |-> "retry", result |-> NoResult]
    ELSE IF out.type = "Exception"
    THEN [act |-> "return", result |-> ErrorResult("AV_UNEXPECTED", out.text)]
    ELSE LET data == out.body IN
        IF "Error Message" \in data.keys
        THEN IF MentionsRateLimit(data.em)
             THEN [act |-> "retry", result |-> NoResult]
             ELSE [act |-> "return", result |-> ErrorResult("TEXT", data.em)]
        ELSE IF "Information" \in data.keys /\ MentionsRateLimit(data.info)
        THEN [act |-> "return", result |-> ErrorResult("TEXT", data.info)]
        ELSE [act |-> "return", result |-> DataResult(data)]

\* The call fetch_alpha_vantage_data(params) up to the first attempt.
AVEnter(fn) ==
    /\ av_params' = fn
    /\ av_i' = 0
    /\ av_calls' = 0
    /\ av_sleeps' = <<>>
    /\ av_hist' = <<>>
    /\ IF ~ALPHA_VANTAGE_API_KEY
       THEN /\ av_pc' = "returned"
            /\ av_result' = ErrorResult("AV_NOT_CONFIGURED", TXT_none)
       ELSE /\ av_pc' = "loop"
            /\ av_result' = NoResult

\* One iteration of `for i in range(max_retries)`, and the return after the
\* loop when it was the last one.
AVAttempt(out) ==
    /\ av_pc = "loop"
    /\ av_i < max_retries
    /\ av_calls' = av_calls + 1
    /\ av_hist' = Append(av_hist, out)
    /\ LET c == AVClassify(out) IN
        IF c.act = "retry"
        THEN /\ av_sleeps' = Append(av_sleeps, AVDelay(av_i))
             /\ IF av_i + 1 < max_retries
                THEN /\ av_i' = av_i + 1
                     /\ av_pc' = "loop"
                     /\ av_result' = NoResult
                ELSE /\ av_i' = av_i
                     /\ av_pc' = "returned"
                     /\ av_result' = ErrorResult("AV_MAX_RETRIES", TXT_none)
        ELSE /\ av_sleeps' = av_sleeps
             /\ av_i' = av_i
             /\ av_pc' = "returned"
             /\ av_result' = c.result
    /\ UNCHANGED <<ALPHA_VANTAGE_API_KEY, GEMINI_API_KEY, handler, http,
                   av_params, gem_vars, agg_vars>>

fetch_alpha_vantage_data == \E out \in AVOutcomes(av_params) : AVAttempt(out)

-----------------------------------------------------------------------------
(* HTTP answers of the route handlers *)

\* An error string is a sequence of labelled messages ("Quote Error: <msg>. ");
\* a message that stands alone has the empty label.
Item(label, msg) == [label |-> label, msg |-> msg]
Plain(msg) == <<Item("", msg)>>

Http(status, error, payload) == [status |-> status, error |-> error, payload |-> payload]
NoHttp == Http(0, <<>>, "none")
\* an exception no handler catches leaves the route handler
Unhandled(exc) == Http(500, Plain(Msg(exc, TXT_none)), "unhandled")

\* get_overview, get_global_quote, get_income_statement, get_earnings,
\* get_balance_sheet, get_cash_flow
SingleFunctions ==
    {"OVERVIEW", "GLOBAL_QUOTE", "INCOME_STATEMENT", "EARNINGS", "BALANCE_SHEET", "CASH_FLOW"}

get_single_call(fn) ==
    /\ handler = "idle"
    /\ handler' = "single"
    /\ AVEnter(fn)
    /\ UNCHANGED <<ALPHA_VANTAGE_API_KEY, GEMINI_API_KEY, http, gem_vars, agg_vars>>

get_single_return ==
    /\ handler = "single"
    /\ av_pc = "returned"
    /\ http = NoHttp
    /\ http' = IF HasError(av_result)
               THEN Http(500, Plain(av_result.msg), "none")
               ELSE Http(200, <<>>, "data")
    /\ UNCHANGED <<ALPHA_VANTAGE_API_KEY, GEMINI_API_KEY, handler, av_vars, gem_vars,
                   agg_vars>>

get_single == (\E fn \in SingleFunctions : get_single_call(fn)) \/ get_single_return

-----------------------------------------------------------------------------
(* generate_gemini_content *)

\* What one GenerativeModel / start_chat / send_message attempt can do: raise,
\* or answer with a response whose candidates list, candidates[0].content and
\* content.parts are empty (FALSE) or not, and whose `text` accessor answers
\* (text_ok) or raises ValueError.
GemRaise(t) ==
    [type |-> "Exception", text |-> t,
     candidates |-> FALSE, content |-> FALSE, parts |-> FALSE, text_ok |-> FALSE]
GemResponse(c, n, p, ok) ==
    [type |-> "response", text |-> TXT_none,
     candidates |-> c, content |-> n, parts |-> p, text_ok |-> ok]

GemOutcomes ==
    {GemRaise(t) : t \in {TXT_quota, TXT_429, TXT_both, TXT_internal}}
        \cup {GemResponse(FALSE, FALSE, FALSE, ok) : ok \in BOOLEAN}
        \cup {GemResponse(TRUE, FALSE, FALSE, ok) : ok \in BOOLEAN}
        \cup {GemResponse(TRUE, TRUE, FALSE, ok) : ok \in BOOLEAN}
        \cup {GemResponse(TRUE, TRUE, TRUE, ok) : ok \in BOOLEAN}

\* initial_delay * (2 ** i)
GemDelay(i) == gem_initial_delay * Pow2(i)

\* response.candidates and response.candidates[0].content
\*     and response.candidates[0].content.parts
HasContent(out) == out.candidates /\ out.content /\ out.parts

\* mutant: every exception is followed by a sleep and the next attempt
GemExcept_AlwaysRetries(text) == [act |-> "retry", result |-> NoResult]

\* The except clause: "quota" in str(e).lower()
\*     or "rate limit" in str(e).lower() and retries > 0
\* `and` binds tighter than `or`, and the name `retries` is bound nowhere:
\* evaluating the right operand of `and` raises NameError out of the handler.
GemExcept(text) ==
    IF Contains(QUOTA, Lower(text))
    THEN [act |-> "retry", result |-> NoResult]
    ELSE IF Contains(RATE_LIMIT, Lower(text))
    THEN [act |-> "raise", result |-> RaisedResult("NameError")]
    ELSE [act |-> "return", result |-> ErrorResult("GEM_UNEXPECTED", text)]

\* One pass through the loop body.  The diagnostic print reads response.text
\* before the content check.
GemClassify(out) ==
    IF out.type = "Exception" THEN GemExcept(out.text)
    ELSE IF ~out.text_ok THEN GemExcept(TXT_valueerror)
    ELSE IF HasContent(out)
    THEN [act |-> "return", result |-> SuccessResult]
    ELSE [act |-> "return", result |-> ErrorResult("GEM_MALFORMED", TXT_none)]

\* mutant: the call without the check of GEMINI_API_KEY
GemEnter_NoKeyCheck ==
    /\ gem_i' = 0
    /\ gem_calls' = 0
    /\ gem_sleeps' = <<>>
    /\ gem_hist' = <<>>
    /\ gem_pc' = "loop"
    /\ gem_result' = NoResult

\* The call generate_gemini_content(prompt_text) up to the first attempt.
GemEnter ==
    /\ gem_i' = 0
    /\ gem_calls' = 0
    /\ gem_sleeps' = <<>>
    /\ gem_hist' = <<>>
    /\ IF ~GEMINI_API_KEY
       THEN /\ gem_pc' = "returned"
            /\ gem_result' = ErrorResult("GEM_NOT_CONFIGURED", TXT_none)
       ELSE /\ gem_pc' = "loop"
            /\ gem_result' = NoResult

\* One iteration of `for i in range(max_retries)`, and the return after the
\* loop when it was the last one.
GemAttempt(out) ==
    /\ gem_pc = "loop"
    /\ gem_i < gem_max_retries
    /\ gem_calls' = gem_calls + 1
    /\ gem_hist' = Append(gem_hist, out)
    /\ LET c == GemClassify(out) IN
        IF c.act = "retry"
        THEN /\ gem_sleeps' = Append(gem_sleeps, GemDelay(gem_i))
             /\ IF gem_i + 1 < gem_max_retries
                THEN /\ gem_i' = gem_i + 1
                     /\ gem_pc' = "loop"
                     /\ gem_result' = NoResult
                ELSE /\ gem_i' = gem_i
                     /\ gem_pc' = "returned"
                     /\ gem_result' = ErrorResult("GEM_MAX_RETRIES", TXT_none)
        ELSE /\ gem_sleeps' = gem_sleeps
             /\ gem_i' = gem_i
             /\ gem_pc' = IF c.act = "raise" THEN "raised" ELSE "returned"
             /\ gem_result' = c.result
    /\ UNCHANGED <<ALPHA_VANTAGE_API_KEY, GEMINI_API_KEY, handler, http,
                   av_vars, agg_vars>>

generate_gemini_content == \E out \in GemOutcomes : GemAttempt(out)

\* generate_report_sections: the prompt is missing/empty (FALSE) or not
generate_report_sections_call(has_prompt) ==
    /\ handler = "idle"
    /\ handler' = "gemini"
    /\ IF ~has_prompt
       THEN /\ http' = Http(400, Plain(Msg("NO_PROMPT", TXT_none)), "none")
            /\ UNCHANGED gem_vars
       ELSE /\ http' = http
            /\ GemEnter
    /\ UNCHANGED <<ALPHA_VANTAGE_API_KEY, GEMINI_API_KEY, av_vars, agg_vars>>

generate_report_sections_return ==
    /\ handler = "gemini"
    /\ gem_pc \in {"returned", "raised"}
    /\ http = NoHttp
    /\ http' = IF gem_pc = "raised" THEN Unhandled(gem_result.msg.fmt)
               ELSE IF HasError(gem_result)
               THEN Http(500, Plain(gem_result.msg), "none")
               ELSE Http(200, <<>>, "generated_content")
    /\ UNCHANGED <<ALPHA_VANTAGE_API_KEY, GEMINI_API_KEY, handler, av_vars, gem_vars,
                   agg_vars>>

generate_report_sections ==
    (\E has_prompt \in BOOLEAN : generate_report_sections_call(has_prompt))
        \/ generate_report_sections_return

-----------------------------------------------------------------------------
(* get_full_stock_report *)

TICK_mixed == <<"a", "$", "Z">>     \* "a$Z"
TICK_bad == <<"$", " ", "!">>       \* "$ !"
Tickers == {TICK_mixed, TICK_bad}

\* [a-zA-Z0-9.\-_]
TickerChar(c) ==
    c \in Range(LowerChars) \cup Range(UpperChars) \cup Digits \cup {".", "-", "_"}

\* re.sub(r'[^a-zA-Z0-9.\-_]', '', ticker).upper()
Sanitize(ticker) == Upper(SelectSeq(ticker, TickerChar))

\* report_data['error'] is None, or a string
None == [isNone |-> TRUE, items |-> <<>>]
Str(items) == [isNone |-> FALSE, items |-> items]

\* truth value of None or of a string
Truthy(e) == ~e.isNone /\ e.items # <<>>

\* report_data as first assigned
NewReport(symbol) ==
    [symbol |-> symbol,
     global_quote |-> {},
     overview |-> EmptyBody,
     income_statement |-> <<>>,
     earnings |-> [keys |-> {}, annualReports |-> <<>>],
     error |-> None]

\* report_data.get('error', '') + f"<label>: {msg}. "
\* The key 'error' is present with the value None, so get() returns None and
\* None + str raises TypeError.
NarrativeAdd(rd, label, msg) ==
    LET cur == rd.error IN
    IF cur.isNone
    THEN [raised |-> TRUE, report |-> rd]
    ELSE [raised |-> FALSE,
          report |-> [rd EXCEPT !.error = Str(Append(cur.items, Item(label, msg)))]]

\* quote_data.get('Global Quote', {})
StoreQuote(rd, data) ==
    [rd EXCEPT !.global_quote = IF "Global Quote" \in data.keys THEN data.quote ELSE {}]

\* report_data['overview'] = overview_data
StoreOverview(rd, data) == [rd EXCEPT !.overview = data]

\* income_data.get('annualReports', [])[:3]
StoreIncome(rd, data) ==
    [rd EXCEPT !.income_statement =
        Slice(IF "annualReports" \in data.keys THEN data.annualReports ELSE <<>>, 3)]

\* report_data['earnings']['annualReports'] = earnings_data.get('annualEarnings', [])[:3]
StoreEarnings(rd, data) ==
    [rd EXCEPT !.earnings =
        [keys |-> rd.earnings.keys \cup {"annualReports"},
         annualReports |->
            Slice(IF "annualEarnings" \in data.keys THEN data.annualEarnings ELSE <<>>, 3)]]

\* The statements after one sub-call: the labelled error, or the section
\* (stored: the report with the section taken from the result).
AfterSubCall(rd, result, label, stored) ==
    IF HasError(result)
    THEN NarrativeAdd(rd, label, result.msg)
    ELSE [raised |-> FALSE, report |-> stored]

\* mutant: the failure when the quote or the overview section is empty
FinalAnswer_EitherEmpty(rd) ==
    IF rd.global_quote = {} \/ rd.overview.keys = {}
    THEN Http(404, IF Truthy(rd.error) THEN rd.error.items
                   ELSE Plain(Msg("TICKER_NOT_FOUND", TXT_none)), "none")
    ELSE Http(200, <<>>, "report_data")

\* "Check for primary data presence" and the return
FinalAnswer(rd) ==
    IF rd.global_quote = {} /\ rd.overview.keys = {}
    THEN LET final_error ==
                IF Truthy(rd.error) THEN rd.error.items
                ELSE Plain(Msg("TICKER_NOT_FOUND", TXT_none))
         IN Http(404, IF Truthy(rd.error) THEN rd.error.items ELSE final_error, "none")
    ELSE Http(200, <<>>, "report_data")

\* a sub-call that returned: its function, and 'error' in its result
Resolved(fn, result) == [fn |-> fn, failed |-> HasError(result)]

\* Entry of the handler up to the first sub-call's first attempt.
get_full_stock_report_call(ticker) ==
    /\ handler = "idle"
    /\ handler' = "full"
    /\ LET sanitized_ticker == Sanitize(ticker) IN
        IF sanitized_ticker = <<>>
        THEN /\ http' = Http(400, Plain(Msg("INVALID_TICKER", TXT_none)), "none")
             /\ UNCHANGED <<av_vars, agg_vars>>
        ELSE /\ http' = http
             /\ report_data' = NewReport(sanitized_ticker)
             /\ agg_pc' = "quote"
             /\ issued' = <<"GLOBAL_QUOTE">>
             /\ resolved' = <<>>
             /\ AVEnter("GLOBAL_QUOTE")
    /\ UNCHANGED <<ALPHA_VANTAGE_API_KEY, GEMINI_API_KEY, gem_vars>>

\* From the return of one sub-call to the first attempt of the next one.
SubCallDone(stage, label, stored, next_stage, next_fn) ==
    /\ handler = "full"
    /\ agg_pc = stage
    /\ av_pc = "returned"
    /\ resolved' = Append(resolved, Resolved(av_params, av_result))
    /\ LET r == AfterSubCall(report_data, av_result, label, stored) IN
        IF r.raised
        THEN /\ agg_pc' = "raised"
             /\ http' = Unhandled("TypeError")
             /\ UNCHANGED <<report_data, issued, av_vars>>
        ELSE /\ report_data' = r.report
             /\ agg_pc' = next_stage
             /\ http' = http
             /\ issued' = Append(issued, next_fn)
             /\ AVEnter(next_fn)
    /\ UNCHANGED <<ALPHA_VANTAGE_API_KEY, GEMINI_API_KEY, handler, gem_vars>>

quote_done ==
    SubCallDone("quote", "Quote Error", StoreQuote(report_data, av_result.data),
                "overview", "OVERVIEW")

overview_done ==
    SubCallDone("overview", "Overview Error", StoreOverview(report_data, av_result.data),
                "income", "INCOME_STATEMENT")

income_done ==
    SubCallDone("income", "Income Statement Error", StoreIncome(report_data, av_result.data),
                "earnings", "EARNINGS")

\* From the return of the earnings sub-call to the handler's return.
earnings_done ==
    /\ handler = "full"
    /\ agg_pc = "earnings"
    /\ av_pc = "returned"
    /\ resolved' = Append(resolved, Resolved(av_params, av_result))
    /\ LET r == AfterSubCall(report_data, av_result, "Earnings Error",
                              StoreEarnings(report_data, av_result.data)) IN
        IF r.raised
        THEN /\ agg_pc' = "raised"
             /\ http' = Unhandled("TypeError")
             /\ UNCHANGED report_data
        ELSE /\ report_data' = r.report
             /\ agg_pc' = "returned"
             /\ http' = FinalAnswer(r.report)
    /\ UNCHANGED <<ALPHA_VANTAGE_API_KEY, GEMINI_API_KEY, handler, gem_vars,
                   issued, av_vars>>

get_full_stock_report ==
    \/ \E ticker \in Tickers : get_full_stock_report_call(ticker)
    \/ quote_done
    \/ overview_done
    \/ income_done
    \/ earnings_done

-----------------------------------------------------------------------------
(* The server *)

Init ==
    /\ ALPHA_VANTAGE_API_KEY \in BOOLEAN
    /\ GEMINI_API_KEY \in BOOLEAN
    /\ handler = "idle"
    /\ http = NoHttp
    /\ av_pc = "idle"
    /\ av_params = ""
    /\ av_i = 0
    /\ av_calls = 0
    /\ av_sleeps = <<>>
    /\ av_hist = <<>>
    /\ av_result = NoResult
    /\ gem_pc = "idle"
    /\ gem_i = 0
    /\ gem_calls = 0
    /\ gem_sleeps = <<>>
    /\ gem_hist = <<>>
    /\ gem_result = NoResult
    /\ agg_pc = "idle"
    /\ report_data = NewReport(<<>>)
    /\ issued = <<>>
    /\ resolved = <<>>

Next ==
    \/ get_single
    \/ fetch_alpha_vantage_data
    \/ get_full_stock_report
    \/ generate_gemini_content
    \/ generate_report_sections

Spec == Init /\ [][Next]_vars

-----------------------------------------------------------------------------
(* Claims *)

\* bodies of a stub that always signals a rate limit in its 'Error Message'
RateLimitStub == {BodyOutcome(ErrBody(TXT_rl_lower)), BodyOutcome(ErrBody(TXT_rl_mixed))}

AllFromRateLimitStub ==
    av_hist # <<>> /\ \A k \in DOMAIN av_hist : av_hist[k] \in RateLimitStub

\* C1: against a provider whose every body carries an 'Error Message' that
\* contains "rate limit" in some letter case, fetch_alpha_vantage_data makes
\* exactly max_retries = 5 attempts and then returns the max-retries failure:
\* it goes on looping while fewer than 5 attempts were made, and has returned
\* once 5 were made.
C1_RateLimitExhausts ==
    AllFromRateLimitStub =>
        /\ av_calls = Len(av_hist)
        /\ av_calls <= 5
        /\ Len(av_sleeps) = av_calls
        /\ (av_calls < 5 => av_pc = "loop")
        /\ (av_calls = 5 =>
                /\ av_pc = "returned"
                /\ av_result = ErrorResult("AV_MAX_RETRIES", TXT_none))

C1_Witness ==
    /\ AllFromRateLimitStub
    /\ av_pc = "returned"
    /\ Len(av_hist) = 5
    /\ \E k \in DOMAIN av_hist : av_hist[k].body.em = TXT_rl_mixed

\* 'Error Message' bodies whose text does not contain "rate limit"
OtherErrorBodies ==
    {b \in CommonBodies : "Error Message" \in b.keys /\ b.em \in {TXT_invalid, TXT_rl_hyphen}}

\* C2: when the first response of an invocation carries an 'Error Message'
\* whose text does not mention "rate limit", the invocation has returned the
\* failure carrying that text after exactly 1 attempt and no sleep.
C2_ProviderErrorImmediate ==
    (av_hist # <<>> /\ av_hist[1].type = "body" /\ av_hist[1].body \in OtherErrorBodies) =>
        /\ av_pc = "returned"
        /\ av_result = ErrorResult("TEXT", av_hist[1].body.em)
        /\ av_calls = 1
        /\ Len(av_hist) = 1
        /\ av_sleeps = <<>>

C2_Witness ==
    /\ av_pc = "returned"
    /\ Len(av_hist) = 1
    /\ av_hist[1].type = "body"
    /\ av_hist[1].body.keys = {"Error Message", "Information"}
    /\ av_result.msg.text = TXT_invalid

\* C3: with a credential absent, every invocation of the corresponding client
\* has returned the not-configured failure with no outbound call and no sleep,
\* whatever the parameters.
C3_NotConfigured ==
    /\ (~ALPHA_VANTAGE_API_KEY /\ av_pc # "idle") =>
            /\ av_pc = "returned"
            /\ av_result = ErrorResult("AV_NOT_CONFIGURED", TXT_none)
            /\ av_calls = 0
            /\ av_hist = <<>>
            /\ av_sleeps = <<>>
    /\ (~GEMINI_API_KEY /\ gem_pc # "idle") =>
            /\ gem_pc = "returned"
            /\ gem_result = ErrorResult("GEM_NOT_CONFIGURED", TXT_none)
            /\ gem_calls = 0
            /\ gem_hist = <<>>
            /\ gem_sleeps = <<>>

C3_Witness ==
    /\ ~GEMINI_API_KEY
    /\ handler = "gemini"
    /\ gem_pc = "returned"
    /\ http.status = 500
    /\ http.error = Plain(Msg("GEM_NOT_CONFIGURED", TXT_none))

\* C10: when the first response of an invocation has no 'Error Message' but an
\* 'Information' text that mentions "rate limit", the invocation has returned
\* the failure carrying that text after exactly 1 attempt and no sleep; a
\* first response whose 'Error Message' mentions "rate limit" is followed by a
\* sleep instead.
C10_InformationRateLimitImmediate ==
    /\ (av_hist # <<>> /\ av_hist[1] = BodyOutcome(InfoBody(TXT_info_rl))) =>
            /\ av_pc = "returned"
            /\ av_result = ErrorResult("TEXT", TXT_info_rl)
            /\ av_calls = 1
            /\ Len(av_hist) = 1
            /\ av_sleeps = <<>>
    /\ (av_hist # <<>> /\ av_hist[1] \in RateLimitStub) =>
            /\ Len(av_sleeps) >= 1
            /\ (Len(av_hist) = 1 => av_pc = "loop" /\ av_result = NoResult)

C10_Witness ==
    /\ av_pc = "returned"
    /\ av_hist = <<BodyOutcome(InfoBody(TXT_info_rl))>>
    /\ av_result = ErrorResult("TEXT", TXT_info_rl)
    /\ handler = "single"
    /\ http.status = 500

-----------------------------------------------------------------------------
(* Claims about get_full_stock_report *)

\* get_full_stock_report has ended, by a return or by an escaping exception
AggEnded == handler = "full" /\ agg_pc \in {"returned", "raised"}

\* the sub-call for fn has returned, with / without 'error'
SubFailed(fn) == \E k \in DOMAIN resolved : resolved[k] = [fn |-> fn, failed |-> TRUE]
SubSucceeded(fn) == \E k \in DOMAIN resolved : resolved[k] = [fn |-> fn, failed |-> FALSE]

\* labels of the error narrative, in order
Labels(e) == [k \in DOMAIN e.items |-> e.items[k].label]

\* C4: when the quote, overview and income-statement sub-calls succeeded with
\* non-empty data and only the earnings sub-call failed, the handler answers
\* with the report (a success) in which the earnings section is absent, the
\* other three sections are populated and the error narrative holds exactly
\* one labelled error, the earnings one.
C4_OnlyEarningsFails ==
    ( /\ AggEnded
      /\ SubSucceeded("GLOBAL_QUOTE") /\ report_data.global_quote # {}
      /\ SubSucceeded("OVERVIEW") /\ report_data.overview.keys # {}
      /\ SubSucceeded("INCOME_STATEMENT") /\ report_data.income_statement # <<>>
      /\ SubFailed("EARNINGS") ) =>
        /\ http.status = 200
        /\ http.payload = "report_data"
        /\ report_data.earnings.keys = {}
        /\ ~report_data.error.isNone
        /\ Labels(report_data.error) = <<"Earnings Error">>

\* C5: when the quote and overview sub-calls both fail and the income-statement
\* sub-call succeeds, the handler answers with a failure whose error narrative
\* holds both the "Quote Error" and the "Overview Error" labels.  A run of
\* that case goes through a failed quote sub-call, so a handler that has ended
\* after one has had its overview and income-statement sub-calls return too.
C5_QuoteAndOverviewFail ==
    /\ (AggEnded /\ SubFailed("GLOBAL_QUOTE")) => Len(resolved) >= 3
    /\ ( /\ AggEnded
         /\ SubFailed("GLOBAL_QUOTE")
         /\ SubFailed("OVERVIEW")
         /\ SubSucceeded("INCOME_STATEMENT") ) =>
            /\ http.status = 404
            /\ "Quote Error" \in Range(Labels(report_data.error))
            /\ "Overview Error" \in Range(Labels(report_data.error))
            /\ http.error = report_data.error.items

\* C8: for a valid ticker all four sub-calls are issued, in whatever way the
\* earlier ones ended, and the handler's outcome is produced only after all
\* four have returned.
C8_AllFourSubCalls ==
    (handler = "full" /\ (AggEnded \/ http # NoHttp) /\ agg_pc # "idle") =>
        /\ issued = <<"GLOBAL_QUOTE", "OVERVIEW", "INCOME_STATEMENT", "EARNINGS">>
        /\ Len(resolved) = 4

\* C9: once all four sub-calls have returned, the handler answers with a
\* failure exactly when the quote and the overview sections are both empty,
\* the failure carrying the error narrative when there is one and the generic
\* "ticker not found" message otherwise; in every other case it answers with
\* the partial report as a success.
C9_TerminationPolicy ==
    (AggEnded /\ Len(resolved) = 4) =>
        LET absent == report_data.global_quote = {} /\ report_data.overview.keys = {} IN
        /\ absent =>
            /\ http.status = 404
            /\ http.error = IF Truthy(report_data.error)
                            THEN report_data.error.items
                            ELSE Plain(Msg("TICKER_NOT_FOUND", TXT_none))
        /\ ~absent =>
            /\ http.status = 200
            /\ http.payload = "report_data"

-----------------------------------------------------------------------------
(* Claims about generate_gemini_content *)

\* exception texts that mention "quota" or "rate limit"
QuotaOrRateLimitTexts == {TXT_quota, TXT_429, TXT_both}

\* C6: an exception caught at an attempt whose text mentions "quota" or
\* "rate limit" (either alone) is followed by the backoff sleep of that
\* attempt and, while attempts remain, by the next attempt; any other
\* exception ends the invocation at once with the failure carrying its text;
\* and the invocation never ends by raising.
C6_ExceptionHandling ==
    /\ gem_pc # "raised"
    /\ \A k \in DOMAIN gem_hist :
        gem_hist[k].type = "Exception" =>
            IF gem_hist[k].text \in QuotaOrRateLimitTexts
            THEN /\ Len(gem_sleeps) >= k
                 /\ gem_sleeps[k] = Pow2(k - 1)
                 /\ (k < 5 /\ Len(gem_hist) = k => gem_pc = "loop")
            ELSE /\ Len(gem_hist) = k
                 /\ Len(gem_sleeps) = k - 1
                 /\ gem_pc = "returned"
                 /\ gem_result = ErrorResult("GEM_UNEXPECTED", gem_hist[k].text)

\* C7: when the provider answers without raising and the candidates, the
\* content or the parts are empty, the invocation returns the "empty or
\* malformed" failure: no success and no other failure.
C7_EmptyResponseMalformed ==
    \A k \in DOMAIN gem_hist :
        (gem_hist[k].type = "response"
            /\ ~(gem_hist[k].candidates /\ gem_hist[k].content /\ gem_hist[k].parts)) =>
                /\ Len(gem_hist) = k
                /\ gem_pc = "returned"
                /\ gem_result = ErrorResult("GEM_MALFORMED", TXT_none)

-----------------------------------------------------------------------------
(* Claims about the backoff and the retry loop *)

\* the sleeps of attempts 0..4
ExpectedDelays == <<1, 2, 4, 8, 16>>

RECURSIVE SumSeq(_)
SumSeq(s) == IF s = <<>> THEN 0 ELSE Head(s) + SumSeq(Tail(s))

\* the sleeps of one invocation are those of its attempts 0, 1, ..., in order
BackoffSleeps(sleeps, hist) ==
    /\ Len(sleeps) <= 5
    /\ sleeps = SubSeq(ExpectedDelays, 1, Len(sleeps))
    /\ \A k \in 1..(Len(sleeps) - 1) : sleeps[k] < sleeps[k + 1]
    /\ Len(sleeps) <= Len(hist)
    /\ Len(hist) <= Len(sleeps) + 1
    /\ SumSeq(sleeps) <= 31

\* C11: in both clients the sleep taken after the transient failure of
\* 0-based attempt a is exactly 2^a time-units (1, 2, 4, 8, 16, strictly
\* increasing), so one invocation sleeps at most 31 time-units in total.
C11_BackoffDelays ==
    /\ BackoffSleeps(av_sleeps, av_hist)
    /\ BackoffSleeps(gem_sleeps, gem_hist)

C11_Witness ==
    /\ av_pc = "returned"
    /\ av_sleeps = ExpectedDelays
    /\ SumSeq(av_sleeps) = 31

\* C12: a transport failure at an attempt is followed by the backoff sleep of
\* that attempt and, while attempts remain, by the next attempt; it is never
\* the returned result before the attempts are spent, and after the 5th the
\* result is the max-retries failure.
C12_TransportRetried ==
    \A k \in DOMAIN av_hist :
        av_hist[k] = TransportOutcome =>
            /\ Len(av_sleeps) >= k
            /\ av_sleeps[k] = ExpectedDelays[k]
            /\ (k < 5 /\ Len(av_hist) = k => av_pc = "loop" /\ av_result = NoResult)
            /\ (k = 5 =>
                    /\ av_pc = "returned"
                    /\ av_calls = 5
                    /\ av_result = ErrorResult("AV_MAX_RETRIES", TXT_none))

C12_Witness ==
    /\ av_pc = "returned"
    /\ av_hist = [k \in 1..5 |-> TransportOutcome]
    /\ av_result = ErrorResult("AV_MAX_RETRIES", TXT_none)


\* the first min(Len(lst), 3) entries of lst, in order
FirstThree(lst) == [k \in 1..(IF Len(lst) < 3 THEN Len(lst) ELSE 3) |-> lst[k]]

\* C13: when the income-statement sub-call returns a body with a list of n
\* annual reports, the step that stores it leaves in the report's
\* income-statement section exactly the first min(n, 3) reports of that list,
\* in their order.
C13_IncomeFirstThree ==
    [][ (agg_pc = "income" /\ agg_pc' = "earnings" /\ "annualReports" \in av_result.data.keys)
            => report_data'.income_statement = FirstThree(av_result.data.annualReports) ]_vars

C13_Witness ==
    /\ handler = "full"
    /\ agg_pc = "earnings"
    /\ SubSucceeded("INCOME_STATEMENT")
    /\ report_data.income_statement = <<51, 52, 53>>


\* the other conjuncts of C14: at most 5 attempts, and a result exactly when
\* the invocation has returned
AttemptsAndResults ==
    /\ av_calls <= 5
    /\ gem_calls <= 5
    /\ (av_pc = "returned" => av_result.kind \in {"error", "data"})
    /\ (av_pc = "loop" => av_result = NoResult)
    /\ (gem_pc = "returned" => gem_result.kind \in {"error", "success"})
    /\ (gem_pc = "loop" => gem_result = NoResult)

\* C14: every invocation of either client makes at most 5 attempts and ends
\* with exactly one result, a success or a failure; no exception escapes, and
\* an attempt ends either in the returned result or in a retry.
C14_OneResultNoEscape ==
    /\ AttemptsAndResults
    /\ av_pc \in {"idle", "loop", "returned"}
    /\ gem_pc \in {"idle", "loop", "returned"}


Last(s) == s[Len(s)]

\* provider outcomes that signal a rate limit or a network failure
ErrorFieldRateLimit(out) ==
    out.type = "body" /\ "Error Message" \in out.body.keys
        /\ out.body.em \in {TXT_rl_lower, TXT_rl_mixed}
InformationRateLimit(out) ==
    out.type = "body" /\ "Error Message" \notin out.body.keys
        /\ "Information" \in out.body.keys /\ out.body.info = TXT_info_rl
TransientAV(out) ==
    out = TransportOutcome \/ ErrorFieldRateLimit(out) \/ InformationRateLimit(out)
TransientGem(out) == out.type = "Exception" /\ out.text \in QuotaOrRateLimitTexts

\* provider outcomes that are failures of another kind
NonTransientAV(out) ==
    \/ out.type = "Exception"
    \/ out.type = "body" /\ "Error Message" \in out.body.keys
            /\ out.body.em \in {TXT_invalid, TXT_rl_hyphen}
NonTransientGem(out) ==
    \/ out.type = "Exception" /\ out.text \notin QuotaOrRateLimitTexts
    \/ out.type = "response" /\ ~(out.candidates /\ out.content /\ out.parts)

\* a failure of another kind is returned at the attempt where it occurs, with
\* no sleep for that attempt
NonTransientImmediate ==
    /\ \A k \in DOMAIN av_hist :
            NonTransientAV(av_hist[k]) =>
                /\ Len(av_hist) = k
                /\ av_pc = "returned"
                /\ HasError(av_result)
                /\ Len(av_sleeps) = k - 1
    /\ \A k \in DOMAIN gem_hist :
            NonTransientGem(gem_hist[k]) =>
                /\ Len(gem_hist) = k
                /\ gem_pc = "returned"
                /\ HasError(gem_result)
                /\ Len(gem_sleeps) = k - 1

\* no quota / rate-limit exception is the returned failure of
\* generate_gemini_content while attempts remain
GemNoTransientResult ==
    (gem_pc = "returned" /\ HasError(gem_result) /\ gem_hist # <<>> /\ gem_calls < 5) =>
        ~TransientGem(Last(gem_hist))

\* C15 as claimed: no rate-limit or network condition is the returned result
\* of an invocation while attempts remain (a failure returned before the 5th
\* attempt comes from a failure of another kind), and a failure of another
\* kind is returned at its attempt without a sleep.
C15_TransientNeverSurfaces ==
    /\ (av_pc = "returned" /\ HasError(av_result) /\ av_hist # <<>> /\ av_calls < 5) =>
            ~TransientAV(Last(av_hist))
    /\ GemNoTransientResult
    /\ NonTransientImmediate

\* C15 as amended: as claimed, except that the rate limit signalled by the
\* 'Information' field is returned at the attempt where it occurs, without a
\* sleep for that attempt.
C15_TransientExceptInformation ==
    /\ (av_pc = "returned" /\ HasError(av_result) /\ av_hist # <<>> /\ av_calls < 5) =>
            \/ ~TransientAV(Last(av_hist))
            \/ InformationRateLimit(Last(av_hist))
    /\ \A k \in DOMAIN av_hist :
            InformationRateLimit(av_hist[k]) =>
                /\ Len(av_hist) = k
                /\ av_pc = "returned"
                /\ av_result = ErrorResult("TEXT", av_hist[k].body.info)
                /\ Len(av_sleeps) = k - 1
    /\ GemNoTransientResult
    /\ NonTransientImmediate

C15_Witness ==
    /\ av_pc = "returned"
    /\ av_calls = 3
    /\ av_sleeps = <<1, 2>>
    /\ av_hist[1] = TransportOutcome
    /\ InformationRateLimit(av_hist[3])
    /\ av_result = ErrorResult("TEXT", TXT_info_rl)


\* get_full_stock_report has returned from its last statements
AggReturned == handler = "full" /\ agg_pc = "returned"

RetriedAV(out) == out = TransportOutcome \/ ErrorFieldRateLimit(out)

\* what one outcome that is not to be retried amounts to, taken alone
ClassOfAttempt(out) ==
    IF out.type = "Exception" THEN ErrorResult("AV_UNEXPECTED", out.text)
    ELSE IF "Error Message" \in out.body.keys THEN ErrorResult("TEXT", out.body.em)
    ELSE IF InformationRateLimit(out) THEN ErrorResult("TEXT", out.body.info)
    ELSE [kind |-> "data", msg |-> NoMsg, data |-> out.body]

\* C17: when the first k attempts (0 <= k <= 4) met an error-field rate limit
\* or a transport failure and attempt k did not, the invocation has made
\* exactly k + 1 attempts, slept 1, 2, ..., 2^(k-1), and returned what attempt
\* k alone amounts to: the whole body, unchanged, when it has no error field
\* and no rate-limit 'Information' (a 'Note' is left in it and ignored).
C17_ResultOfLastAttempt ==
    (av_hist # <<>> /\ ~RetriedAV(Last(av_hist))) =>
        LET n == Len(av_hist) IN
        /\ n <= 5
        /\ \A k \in 1..(n - 1) : RetriedAV(av_hist[k])
        /\ av_pc = "returned"
        /\ av_calls = n
        /\ av_sleeps = SubSeq(ExpectedDelays, 1, n - 1)
        /\ av_result = ClassOfAttempt(Last(av_hist))

C17_Witness ==
    /\ av_pc = "returned"
    /\ Len(av_hist) = 5
    /\ av_sleeps = <<1, 2, 4, 8>>
    /\ "Note" \in av_hist[5].body.keys
    /\ av_result.kind = "data"
    /\ av_result.data = av_hist[5].body
    /\ av_result.data.note = TXT_note

\* C19: when an attempt raises an exception that is not a requests exception,
\* the invocation has returned the "unexpected error" failure at that attempt,
\* with no sleep for it and no further attempt, also with attempts left.
C19_UnexpectedErrorImmediate ==
    \A k \in DOMAIN av_hist :
        av_hist[k].type = "Exception" =>
            /\ Len(av_hist) = k
            /\ av_calls = k
            /\ av_pc = "returned"
            /\ av_result = ErrorResult("AV_UNEXPECTED", av_hist[k].text)
            /\ Len(av_sleeps) = k - 1

C19_Witness ==
    /\ av_pc = "returned"
    /\ av_calls = 2
    /\ av_hist[2] = OtherOutcome(TXT_json)
    /\ av_sleeps = <<1>>
    /\ av_result.msg.fmt = "AV_UNEXPECTED"


\* the sub-calls and their labels, in the order of the handler's text
SubCallOrder == <<"GLOBAL_QUOTE", "OVERVIEW", "INCOME_STATEMENT", "EARNINGS">>
SubCallLabels ==
    <<"Quote Error", "Overview Error", "Income Statement Error", "Earnings Error">>

\* labels of the sub-calls that have returned with 'error', in call order
RECURSIVE FailedLabels(_)
FailedLabels(k) ==
    IF k = 0 THEN <<>>
    ELSE IF resolved[k].failed
         THEN Append(FailedLabels(k - 1), SubCallLabels[k])
         ELSE FailedLabels(k - 1)

\* the sub-calls are issued in the fixed order, each after the one before it
\* has returned, and no more than 4 x 5 attempts can have been made
OrderAndAttempts ==
    (handler = "full" /\ agg_pc # "idle") =>
        /\ Len(issued) <= 4
        /\ issued = SubSeq(SubCallOrder, 1, Len(issued))
        /\ \A k \in DOMAIN resolved : resolved[k].fn = SubCallOrder[k]
        /\ Len(resolved) = IF AggEnded THEN Len(issued) ELSE Len(issued) - 1
        /\ av_params = issued[Len(issued)]
        /\ av_calls <= 5
        /\ 5 * Len(resolved) + (IF AggEnded THEN 0 ELSE av_calls) <= 20

\* C18: one full-report request issues its sub-calls in the order quote,
\* overview, income statement, earnings, each after the one before it has
\* returned, makes at most 4 x 5 = 20 provider attempts, and holds in its
\* error narrative the labelled errors of the failed sub-calls in that order.
C18_SequentialSubCalls ==
    /\ OrderAndAttempts
    /\ (handler = "full" /\ agg_pc # "idle") =>
            Labels(report_data.error) = FailedLabels(Len(resolved))


\* exception texts that mention "quota"
QuotaTexts == {TXT_quota, TXT_both}

\* C20: generate_gemini_content makes a further attempt only when every
\* attempt so far raised an exception that mentions quota or rate limit; an
\* answer of the provider that does not raise, with content or empty, ends
\* the invocation at that attempt; and when all 5 attempts raise quota
\* exceptions the result is the max-retries failure after exactly 5 attempts.
C20_GeminiRetryOnlyOnQuota ==
    /\ gem_calls = Len(gem_hist)
    /\ gem_calls <= 5
    /\ \A k \in 1..(Len(gem_hist) - 1) : TransientGem(gem_hist[k])
    /\ \A k \in DOMAIN gem_hist :
            gem_hist[k].type = "response" =>
                /\ Len(gem_hist) = k
                /\ gem_pc = "returned"
                /\ gem_result.kind \in {"success", "error"}
    /\ (Len(gem_hist) = 5
            /\ \A k \in 1..5 : gem_hist[k].type = "Exception" /\ gem_hist[k].text \in QuotaTexts) =>
                /\ gem_pc = "returned"
                /\ gem_result = ErrorResult("GEM_MAX_RETRIES", TXT_none)

C20_Witness ==
    /\ gem_pc = "returned"
    /\ gem_calls = 5
    /\ \A k \in 1..5 : gem_hist[k].type = "Exception" /\ gem_hist[k].text \in QuotaTexts
    /\ gem_hist[5].text = TXT_both
    /\ gem_sleeps = <<1, 2, 4, 8, 16>>
    /\ gem_result = ErrorResult("GEM_MAX_RETRIES", TXT_none)

====
